---- MODULE Spec2Model ----
(***************************************************************************)
(* State-machine model of examples/viewer5/model.cpp: one Model object,    *)
(* the OpenGL object names it owns, and the operations loadFromFile,       *)
(* computeNormals, computeTangents, setupVAO and the destructor.           *)
(*                                                                         *)
(* Numbers.  Source coordinates are small integers.  A position stored in  *)
(* m_vertices stands for  position / sqrt(m_posDenSq) : standardize()      *)
(* multiplies by 2 / length(max - min), an irrational factor, so the model *)
(* keeps the integer numerator per vertex and the squared denominator per  *)
(* mesh (m_posDenSq = 0 stands for NaN positions, 0 * inf).  A normal      *)
(* carries a form: "raw" is the vector itself, "unit" is normal/|normal|   *)
(* with normal reduced to its primitive integer direction, "acc" is an     *)
(* accumulator that was never normalized, "nan" is glm::normalize(0).      *)
(* Floating-point rounding is not modelled.                                *)
(***************************************************************************)
EXTENDS Integers, Sequences, FiniteSets, TLC

\* ------------------------------------------------------------- bounds
\* Largest number of faces of a generated OBJ document.
MaxFaces == 1

\* ------------------------------------------------------------ vectors
Abs(x) == IF x < 0 THEN -x ELSE x

Max2(a, b) == IF a > b THEN a ELSE b

Min2(a, b) == IF a < b THEN a ELSE b

RECURSIVE Gcd(_, _)
Gcd(a, b) == IF b = 0 THEN a ELSE Gcd(b, a % b)

Zero3 == <<0, 0, 0>>

Add3(a, b) == <<a[1] + b[1], a[2] + b[2], a[3] + b[3]>>

Sub3(a, b) == <<a[1] - b[1], a[2] - b[2], a[3] - b[3]>>

Scale3(k, a) == <<k * a[1], k * a[2], k * a[3]>>

Dot3(a, b) == a[1] * b[1] + a[2] * b[2] + a[3] * b[3]

Cross3(a, b) ==
  <<a[2] * b[3] - a[3] * b[2],
    a[3] * b[1] - a[1] * b[3],
    a[1] * b[2] - a[2] * b[1]>>

Sub2(a, b) == <<a[1] - b[1], a[2] - b[2]>>

\* The direction of a non-zero integer vector: the vector over the gcd of
\* its components, which names v / |v| uniquely.
Primitive3(v) ==
  LET g == Gcd(Gcd(Abs(v[1]), Abs(v[2])), Abs(v[3]))
  IN  <<v[1] \div g, v[2] \div g, v[3] \div g>>

\* glm::normalize of the vector v (any positive multiple of it):
\* v * inversesqrt(dot(v, v)), which is NaN for the zero vector.
Normalize3(v) ==
  IF v = Zero3 THEN [form |-> "nan", v |-> Zero3]
  ELSE [form |-> "unit", v |-> Primitive3(v)]

\* ------------------------------------------------- parsed OBJ documents
\* An index_t of tinyobj: indices into attrib.vertices / normals /
\* texcoords (counted in elements, 0-based), -1 when the corner has none.
Corner(v, n, t) == [vertex_index |-> v, normal_index |-> n, texcoord_index |-> t]

NoMaterials == <<>>

Material(amb, dtex, ntex, btex) ==
  [ambient |-> amb, diffuse |-> <<5, 5, 5>>, specular |-> <<2, 2, 2>>,
   shininess |-> 100,
   diffuse_texname |-> dtex, normal_texname |-> ntex, bump_texname |-> btex]

\* The texture files that exist beside the OBJ documents.
ExistingFiles == {"wood.png", "bricks_n.png"}

\* Attribute arrays shared by the generated documents: a unit square in the
\* z = 0 plane (position 4 repeats position 0), one point above it.
QuadPositions ==
  <<<<0, 0, 0>>, <<1, 0, 0>>, <<1, 1, 0>>, <<0, 1, 0>>, <<0, 0, 0>>, <<0, 0, 1>>>>

QuadNormals == <<<<0, 1, 0>>, <<1, 0, 0>>>>

QuadTexCoords == <<<<0, 0>>, <<1, 0>>, <<1, 1>>, <<0, 1>>>>

\* The faces generated documents are made of.
FacePlainA == <<Corner(0, -1, -1), Corner(1, -1, -1), Corner(2, -1, -1)>>

FacePlainB == <<Corner(4, -1, -1), Corner(2, -1, -1), Corner(3, -1, -1)>>

FacePartial == <<Corner(0, 0, 0), Corner(2, -1, 2), Corner(3, -1, 3)>>

FaceBadPosition == <<Corner(0, -1, -1), Corner(6, -1, -1), Corner(2, -1, -1)>>

FaceSet == {FacePlainA, FacePlainB, FacePartial}

RECURSIVE Flatten(_)
Flatten(faces) ==
  IF faces = <<>> THEN <<>> ELSE Head(faces) \o Flatten(Tail(faces))

FaceLists == UNION {[1..n -> FaceSet] : n \in 0..MaxFaces}

ObjFile(ok, pos, nrm, tex, corners, mats) ==
  [parseOk |-> ok, vertices |-> pos, normals |-> nrm, texcoords |-> tex,
   indices |-> corners, materials |-> mats]

QuadFile(corners, mats) ==
  ObjFile(TRUE, QuadPositions, QuadNormals, QuadTexCoords, corners, mats)

GeneratedFiles == {QuadFile(Flatten(fl), NoMaterials) : fl \in FaceLists}

\* A cube: 8 corner positions, 12 triangles, no normals, no texcoords.
CubePositions ==
  <<<<0, 0, 0>>, <<1, 0, 0>>, <<1, 1, 0>>, <<0, 1, 0>>,
    <<0, 0, 1>>, <<1, 0, 1>>, <<1, 1, 1>>, <<0, 1, 1>>>>

CubeTriangles ==
  <<<<0, 2, 1>>, <<0, 3, 2>>, <<4, 5, 6>>, <<4, 6, 7>>,
    <<0, 1, 5>>, <<0, 5, 4>>, <<3, 6, 2>>, <<3, 7, 6>>,
    <<0, 4, 7>>, <<0, 7, 3>>, <<1, 2, 6>>, <<1, 6, 5>>>>

CubeCorners ==
  [k \in 1..36 |-> Corner(CubeTriangles[((k - 1) \div 3) + 1][((k - 1) % 3) + 1], -1, -1)]

CubeFile == ObjFile(TRUE, CubePositions, <<>>, <<>>, CubeCorners, NoMaterials)

\* The square with texture coordinates on every corner and no normals.
QuadUVCorners ==
  <<Corner(0, -1, 0), Corner(1, -1, 1), Corner(2, -1, 2),
    Corner(0, -1, 0), Corner(2, -1, 2), Corner(3, -1, 3)>>

\* The square with a normal and a texture coordinate on every corner.
QuadFullCorners ==
  <<Corner(0, 0, 0), Corner(1, 0, 1), Corner(2, 0, 2),
    Corner(4, 0, 0), Corner(2, 0, 2), Corner(3, 1, 3)>>

\* Documents whose material varies.
MaterialSet ==
  {<<Material(<<2, 3, 4>>, "", "", "")>>,
   <<Material(<<2, 3, 4>>, "wood.png", "bricks_n.png", "")>>,
   <<Material(<<2, 3, 4>>, "missing.png", "", "bricks_n.png")>>,
   <<Material(<<2, 3, 4>>, "wood.png", "missing_n.png", "bricks_n.png")>>}

MaterialFiles == {QuadFile(QuadUVCorners, ms) : ms \in MaterialSet}

NamedFiles ==
  {CubeFile,
   QuadFile(QuadFullCorners, NoMaterials),
   \* a face with a normal on every corner and no texture coordinates
   QuadFile(<<Corner(0, 0, -1), Corner(1, 0, -1), Corner(2, 1, -1)>>, NoMaterials),
   \* the square as two plain faces, and one face twice
   QuadFile(FacePlainA \o FacePlainB, NoMaterials),
   QuadFile(FacePlainA \o FacePlainA, NoMaterials),
   \* a triangle with two equal corners (zero area)
   QuadFile(<<Corner(0, -1, -1), Corner(1, -1, -1), Corner(4, -1, -1)>>, NoMaterials),
   \* every corner at the same position
   QuadFile(<<Corner(0, -1, -1), Corner(4, -1, -1), Corner(0, -1, -1)>>, NoMaterials),
   \* degenerate texture coordinates (zero determinant)
   QuadFile(<<Corner(0, -1, 0), Corner(1, -1, 0), Corner(2, -1, 0)>>, NoMaterials),
   \* a position index outside its array, in the first and in a later face
   QuadFile(FaceBadPosition, NoMaterials),
   QuadFile(FacePlainA \o FaceBadPosition, NoMaterials),
   \* a normal index and a texcoord index outside their arrays
   QuadFile(<<Corner(0, 0, -1), Corner(1, 2, -1), Corner(2, 0, -1)>>, NoMaterials),
   QuadFile(<<Corner(0, -1, 0), Corner(1, -1, 1), Corner(2, -1, 4)>>, NoMaterials),
   \* a document the parser rejects
   ObjFile(FALSE, <<>>, <<>>, <<>>, <<>>, NoMaterials)}

Files == GeneratedFiles \cup MaterialFiles \cup NamedFiles

\* ---------------------------------------------------------------- state
VARIABLES
  m_vertices,        \* std::vector<Vertex>
  m_indices,         \* std::vector<GLuint>, 0-based indices into m_vertices
  m_hasNormals,
  m_hasTexCoords,
  m_posDenSq,        \* squared denominator of the stored positions
  m_Ka, m_Kd, m_Ks, m_shininess,   \* material, in tenths
  m_VAO, m_VBO, m_EBO,
  m_diffuseTexture, m_normalTexture,
  glBuffers,         \* names of the buffer objects that exist
  glTextures,        \* names of the texture objects that exist
  glVertexArrays,    \* names of the vertex array objects that exist
  previous,          \* objects that existed when the latest load began
  destroyed,         \* the destructor has run
  lastCall           \* the latest operation: its arguments and outcome

meshVars == <<m_vertices, m_indices, m_hasNormals, m_hasTexCoords, m_posDenSq>>

materialVars == <<m_Ka, m_Kd, m_Ks, m_shininess>>

handleVars == <<m_VAO, m_VBO, m_EBO, m_diffuseTexture, m_normalTexture>>

glVars == <<glBuffers, glTextures, glVertexArrays>>

vars == <<meshVars, materialVars, handleVars, glVars, previous, destroyed, lastCall>>

\* The Model and its OpenGL context as one record, for the operators below.
\* thrown, stages and hash are locals of the call in progress.
Self ==
  [m_vertices |-> m_vertices, m_indices |-> m_indices,
   m_hasNormals |-> m_hasNormals, m_hasTexCoords |-> m_hasTexCoords,
   m_posDenSq |-> m_posDenSq,
   m_Ka |-> m_Ka, m_Kd |-> m_Kd, m_Ks |-> m_Ks, m_shininess |-> m_shininess,
   m_VAO |-> m_VAO, m_VBO |-> m_VBO, m_EBO |-> m_EBO,
   m_diffuseTexture |-> m_diffuseTexture, m_normalTexture |-> m_normalTexture,
   glBuffers |-> glBuffers, glTextures |-> glTextures,
   glVertexArrays |-> glVertexArrays, previous |-> previous,
   thrown |-> "", stages |-> <<>>, hash |-> <<>>]

\* --------------------------------------------------------------- OpenGL
\* glGen*: an unused name; the model takes the lowest one.
GenName(live) == CHOOSE n \in 1..(Cardinality(live) + 1) :
                   n \notin live /\ \A k \in 1..(n - 1) : k \in live

\* glDelete*: names that are 0 or name no object are ignored.
glDeleteBuffers(m, name) ==
  [m EXCEPT !.glBuffers = @ \ {name}, !.previous = @ \ {<<"buffer", name>>}]

glDeleteTextures(m, name) ==
  [m EXCEPT !.glTextures = @ \ {name}, !.previous = @ \ {<<"texture", name>>}]

glDeleteVertexArrays(m, name) ==
  [m EXCEPT !.glVertexArrays = @ \ {name},
            !.previous = @ \ {<<"vertexArray", name>>}]

\* Every object that exists, tagged with its kind.
LiveObjects(bufs, texs, vaos) ==
  {<<"buffer", n>> : n \in bufs} \cup {<<"texture", n>> : n \in texs}
    \cup {<<"vertexArray", n>> : n \in vaos}

\* ------------------------------------------- vertex build (lines 186-245)
ZeroTangent == [form |-> "zero", v |-> Zero3, w |-> 0]

RawNormal(v) == [form |-> "raw", v |-> v]

\* operator== and std::hash<Vertex>: position, normal and texCoord.
VertexKey(vertex) == <<vertex.position, vertex.normal, vertex.texCoord>>

\* ClearMesh without m_vertices.clear().
ClearMeshKeepsVertices(m) ==
  [m EXCEPT !.m_indices = <<>>, !.m_posDenSq = 1,
            !.m_hasNormals = FALSE, !.m_hasTexCoords = FALSE, !.hash = <<>>]

ClearMesh(m) ==
  [m EXCEPT !.m_vertices = <<>>, !.m_indices = <<>>, !.m_posDenSq = 1,
            !.m_hasNormals = FALSE, !.m_hasTexCoords = FALSE, !.hash = <<>>]

\* std::vector::at of an attribute array, by element.
InRange(array, i) == i >= 0 /\ i < Len(array)

\* hash[vertex] = m_vertices.size() written after the push_back.
InsertVertexIndexAfterPush(m, vertex) ==
  LET key == VertexKey(vertex)
      isNew == key \notin DOMAIN m.hash
      hash1 == IF isNew THEN (key :> Len(m.m_vertices) + 1) @@ m.hash ELSE m.hash
      m1 == IF isNew
            THEN [m EXCEPT !.hash = hash1, !.m_vertices = Append(@, vertex)]
            ELSE m
  IN  [m1 EXCEPT !.m_indices = Append(@, hash1[key])]

\* Lines 235-243: look the vertex up, add it when it is new, push its index.
InsertVertex(m, vertex) ==
  LET key == VertexKey(vertex)
      isNew == key \notin DOMAIN m.hash
      hash1 == IF isNew THEN (key :> Len(m.m_vertices)) @@ m.hash ELSE m.hash
      m1 == IF isNew
            THEN [m EXCEPT !.hash = hash1, !.m_vertices = Append(@, vertex)]
            ELSE m
  IN  [m1 EXCEPT !.m_indices = Append(@, hash1[key])]

\* One iteration of the loop over shape.mesh.indices.
AddCorner(m, file, index) ==
  IF ~InRange(file.vertices, index.vertex_index)
  THEN [m EXCEPT !.thrown = "out_of_range"]
  ELSE
    LET hasN == index.normal_index >= 0
        hasT == index.texcoord_index >= 0
        m1 == [m EXCEPT !.m_hasNormals = @ \/ hasN]
    IN  IF hasN /\ ~InRange(file.normals, index.normal_index)
        THEN [m1 EXCEPT !.thrown = "out_of_range"]
        ELSE
          LET m2 == [m1 EXCEPT !.m_hasTexCoords = @ \/ hasT]
          IN  IF hasT /\ ~InRange(file.texcoords, index.texcoord_index)
              THEN [m2 EXCEPT !.thrown = "out_of_range"]
              ELSE
                InsertVertex(m2,
                  [position |-> file.vertices[index.vertex_index + 1],
                   normal |-> RawNormal(IF hasN
                                        THEN file.normals[index.normal_index + 1]
                                        ELSE Zero3),
                   texCoord |-> IF hasT
                                THEN file.texcoords[index.texcoord_index + 1]
                                ELSE <<0, 0>>,
                   tangent |-> ZeroTangent])

RECURSIVE AddCorners(_, _, _)
AddCorners(m, file, k) ==
  IF k > Len(file.indices) \/ m.thrown # "" THEN m
  ELSE AddCorners(AddCorner(m, file, file.indices[k]), file, k + 1)

BuildVertexIndex(m, file) ==
  AddCorners([ClearMesh(m) EXCEPT !.stages = Append(@, "BuildVertexIndex")], file, 1)

\* ----------------------------------------------- material (lines 147-159, 247-269)
loadTexture(m) == GenName(m.glTextures)

loadDiffuseTexture(m, path) ==
  IF path \notin ExistingFiles THEN m
  ELSE LET d == glDeleteTextures(m, m.m_diffuseTexture)
           t == loadTexture(d)
       IN  [d EXCEPT !.m_diffuseTexture = t, !.glTextures = @ \cup {t}]

loadNormalTexture(m, path) ==
  IF path \notin ExistingFiles THEN m
  ELSE LET d == glDeleteTextures(m, m.m_normalTexture)
           t == loadTexture(d)
       IN  [d EXCEPT !.m_normalTexture = t, !.glTextures = @ \cup {t}]

Color(rgb) == <<rgb[1], rgb[2], rgb[3], 10>>

ResolveMaterial(m, file) ==
  LET s == [m EXCEPT !.stages = Append(@, "ResolveMaterial")]
  IN  IF file.materials # <<>>
      THEN
        LET mat == file.materials[1]
            m1 == [s EXCEPT !.m_Ka = Color(mat.ambient),
                            !.m_Kd = Color(mat.diffuse),
                            !.m_Ks = Color(mat.specular),
                            !.m_shininess = mat.shininess]
            m2 == IF mat.diffuse_texname # ""
                  THEN loadDiffuseTexture(m1, mat.diffuse_texname)
                  ELSE m1
        IN  IF mat.normal_texname # ""
            THEN loadNormalTexture(m2, mat.normal_texname)
            ELSE IF mat.bump_texname # ""
                 THEN loadNormalTexture(m2, mat.bump_texname)
                 ELSE m2
      ELSE [s EXCEPT !.m_Ka = <<1, 1, 1, 10>>, !.m_Kd = <<7, 7, 7, 10>>,
                     !.m_Ks = <<10, 10, 10, 10>>, !.m_shininess = 250]

\* ------------------------------------------------ standardize (lines 359-380)
RECURSIVE FoldMax(_, _, _)
FoldMax(vs, axis, k) ==
  IF k = 1 THEN vs[1].position[axis]
  ELSE Max2(FoldMax(vs, axis, k - 1), vs[k].position[axis])

RECURSIVE FoldMin(_, _, _)
FoldMin(vs, axis, k) ==
  IF k = 1 THEN vs[1].position[axis]
  ELSE Min2(FoldMin(vs, axis, k - 1), vs[k].position[axis])

BoundsMax(vs) == [axis \in 1..3 |-> FoldMax(vs, axis, Len(vs))]

BoundsMin(vs) == [axis \in 1..3 |-> FoldMin(vs, axis, Len(vs))]

\* scaling = 2 / length(max - min): the stored numerator becomes
\* 2 * position - (min + max) and the squared denominator |max - min|^2.
\* A zero length gives scaling = inf and positions 0 * inf = NaN.
standardize(m) ==
  LET s == [m EXCEPT !.stages = Append(@, "Standardize")]
      vs == m.m_vertices
  IN  IF vs = <<>> THEN s
      ELSE
        LET max == BoundsMax(vs)
            min == BoundsMin(vs)
            d == Sub3(max, min)
            lengthSq == Dot3(d, d)
        IN  [s EXCEPT
              !.m_posDenSq = lengthSq,
              !.m_vertices =
                 [k \in 1..Len(vs) |->
                    [vs[k] EXCEPT !.position =
                       IF lengthSq = 0 THEN Zero3
                       ELSE Sub3(Scale3(2, @), Add3(min, max))]]]

\* --------------------------------------------- computeNormals (lines 32-62)
\* std::vector::at on m_indices and then on m_vertices, for one face.
FaceInRange(m, offset) ==
  /\ offset + 2 < Len(m.m_indices)
  /\ \A j \in 0..2 : m.m_indices[offset + j + 1] < Len(m.m_vertices)

\* a += b on a normal or an accumulator: NaN absorbs.
AddNormal(a, face) ==
  IF a.form = "nan" \/ face.form = "nan" THEN [form |-> "nan", v |-> Zero3]
  ELSE [form |-> "acc", v |-> Add3(a.v, face.v)]

\* FaceNormal with the operands of the cross product exchanged.
FaceNormalSwapped(m, offset) ==
  LET a == m.m_vertices[m.m_indices[offset + 1] + 1]
      b == m.m_vertices[m.m_indices[offset + 2] + 1]
      c == m.m_vertices[m.m_indices[offset + 3] + 1]
      edge1 == Sub3(b.position, a.position)
      edge2 == Sub3(c.position, b.position)
  IN  IF m.m_posDenSq = 0 THEN [form |-> "nan", v |-> Zero3]
      ELSE [form |-> "acc", v |-> Cross3(edge2, edge1)]

\* cross(b - a, c - b) of one face, over the stored numerators (the true
\* value is this over m_posDenSq; NaN when the positions are NaN).
FaceNormal(m, offset) ==
  LET a == m.m_vertices[m.m_indices[offset + 1] + 1]
      b == m.m_vertices[m.m_indices[offset + 2] + 1]
      c == m.m_vertices[m.m_indices[offset + 3] + 1]
      edge1 == Sub3(b.position, a.position)
      edge2 == Sub3(c.position, b.position)
  IN  IF m.m_posDenSq = 0 THEN [form |-> "nan", v |-> Zero3]
      ELSE [form |-> "acc", v |-> Cross3(edge1, edge2)]

\* The body of the loop over faces: a.normal += normal, b.normal += normal,
\* c.normal += normal, where a, b, c may be the same vertex.
AccumulateFaceNormal(m, offset) ==
  LET normal == FaceNormal(m, offset)
      ia == m.m_indices[offset + 1] + 1
      ib == m.m_indices[offset + 2] + 1
      ic == m.m_indices[offset + 3] + 1
      v1 == [m.m_vertices EXCEPT ![ia].normal = AddNormal(@, normal)]
      v2 == [v1 EXCEPT ![ib].normal = AddNormal(@, normal)]
      v3 == [v2 EXCEPT ![ic].normal = AddNormal(@, normal)]
  IN  [m EXCEPT !.m_vertices = v3]

RECURSIVE AccumulateNormals(_, _)
AccumulateNormals(m, offset) ==
  IF offset >= Len(m.m_indices) THEN m
  ELSE IF ~FaceInRange(m, offset) THEN [m EXCEPT !.thrown = "out_of_range"]
  ELSE AccumulateNormals(AccumulateFaceNormal(m, offset), offset + 3)

ClearNormals(m) ==
  [m EXCEPT !.m_vertices =
     [k \in 1..Len(@) |-> [@[k] EXCEPT !.normal = [form |-> "acc", v |-> Zero3]]]]

NormalizeNormal(n) == IF n.form = "nan" THEN n ELSE Normalize3(n.v)

computeNormals(m) ==
  LET s == [m EXCEPT !.stages = Append(@, "ComputeNormals")]
      acc == AccumulateNormals(ClearNormals(s), 0)
  IN  IF acc.thrown # "" THEN acc
      ELSE [acc EXCEPT
             !.m_hasNormals = TRUE,
             !.m_vertices =
                [k \in 1..Len(@) |-> [@[k] EXCEPT !.normal = NormalizeNormal(@)]]]

\* ------------------------------------------- computeTangents (lines 64-125)
\* A tangent or bitangent accumulator: the rational vector num / den
\* (den > 0, in units of 1 / sqrt(m_posDenSq)) when form = "num"; "nan" is
\* NaN; "undef" is the inf/NaN result of a zero UV determinant; "mixed" is a
\* sum that started from an earlier, already normalized tangent.  The value
\* of an "undef" or "mixed" tangent is not tracked.
Rank(form) ==
  CASE form = "num" -> 0 [] form = "mixed" -> 1 [] form = "undef" -> 2
    [] form = "nan" -> 3

Sign(x) == IF x < 0 THEN -1 ELSE 1

AddRational(a, face) ==
  IF a.form = "num" /\ face.form = "num"
  THEN [form |-> "num",
        num |-> Add3(Scale3(face.den, a.num), Scale3(a.den, face.num)),
        den |-> a.den * face.den]
  ELSE [form |-> IF Rank(a.form) >= Rank(face.form) THEN a.form ELSE face.form,
        num |-> Zero3, den |-> 1]

\* vertex.tangent as the start of the accumulation (v.tangent += tangent).
TangentStart(tangent) ==
  [form |-> CASE tangent.form = "zero" -> "num"
              [] tangent.form = "unit" -> "mixed"
              [] OTHER -> tangent.form,
   num |-> Zero3, den |-> 1]

\* The face tangent and bitangent: M * (e1, e2) with
\* M = [[dt2, -dt1], [-ds2, ds1]] / (ds1 * dt2 - ds2 * dt1).
FaceTangents(m, offset) ==
  LET v1 == m.m_vertices[m.m_indices[offset + 1] + 1]
      v2 == m.m_vertices[m.m_indices[offset + 2] + 1]
      v3 == m.m_vertices[m.m_indices[offset + 3] + 1]
      e1 == Sub3(v2.position, v1.position)
      e2 == Sub3(v3.position, v1.position)
      delta1 == Sub2(v2.texCoord, v1.texCoord)
      delta2 == Sub2(v3.texCoord, v1.texCoord)
      det == delta1[1] * delta2[2] - delta2[1] * delta1[2]
      bad(form) == [form |-> form, num |-> Zero3, den |-> 1]
  IN  IF m.m_posDenSq = 0 THEN [tangent |-> bad("nan"), bitangent |-> bad("nan")]
      ELSE IF det = 0 THEN [tangent |-> bad("undef"), bitangent |-> bad("undef")]
      ELSE
        [tangent |->
           [form |-> "num", den |-> Abs(det),
            num |-> Scale3(Sign(det),
                           Sub3(Scale3(delta2[2], e1), Scale3(delta1[2], e2)))],
         bitangent |->
           [form |-> "num", den |-> Abs(det),
            num |-> Scale3(Sign(det),
                           Sub3(Scale3(delta1[1], e2), Scale3(delta2[1], e1)))]]

\* The loop over faces, on the pair of accumulator sequences.
RECURSIVE AccumulateTangents(_, _, _)
AccumulateTangents(m, acc, offset) ==
  IF offset >= Len(m.m_indices) THEN acc
  ELSE IF ~FaceInRange(m, offset) THEN [acc EXCEPT !.thrown = "out_of_range"]
  ELSE
    LET f == FaceTangents(m, offset)
        i1 == m.m_indices[offset + 1] + 1
        i2 == m.m_indices[offset + 2] + 1
        i3 == m.m_indices[offset + 3] + 1
        t1 == [acc.tangents EXCEPT ![i1] = AddRational(@, f.tangent)]
        t2 == [t1 EXCEPT ![i2] = AddRational(@, f.tangent)]
        t3 == [t2 EXCEPT ![i3] = AddRational(@, f.tangent)]
        b1 == [acc.bitangents EXCEPT ![i1] = AddRational(@, f.bitangent)]
        b2 == [b1 EXCEPT ![i2] = AddRational(@, f.bitangent)]
        b3 == [b2 EXCEPT ![i3] = AddRational(@, f.bitangent)]
    IN  AccumulateTangents(m,
          [acc EXCEPT !.tangents = t3, !.bitangents = b3,
                      !.touched = @ \cup {i1, i2, i3}],
          offset + 3)

\* The second loop, for one vertex: orthogonalize against the normal,
\* normalize, and set w from the handedness.  A normal v / s with s * s = q
\* gives the direction q * t - v * dot(v, t).
FinishTangent(vertex, t, b, posDenSq) ==
  LET n == vertex.normal
      q == CASE n.form = "raw" -> 1
             [] n.form = "unit" -> Dot3(n.v, n.v)
             [] OTHER -> posDenSq * posDenSq
      dir == Sub3(Scale3(q, t.num), Scale3(Dot3(n.v, t.num), n.v))
      handedness == Dot3(Cross3(n.v, t.num), b.num)
  IN  IF t.form = "nan" \/ n.form = "nan"
      THEN [form |-> "nan", v |-> Zero3, w |-> 1]
      ELSE IF t.form # "num" THEN [form |-> t.form, v |-> Zero3, w |-> 0]
      ELSE Normalize3(dir) @@ [w |-> IF handedness < 0 THEN -1 ELSE 1]

\* A tangent left by the first loop alone (the call threw before the
\* second): the old value plus the accumulated face tangents.
UnfinishedTangent(vertex, t) ==
  IF t.form = "nan" THEN [form |-> "nan", v |-> Zero3, w |-> vertex.tangent.w]
  ELSE [form |-> IF t.form = "undef" THEN "undef" ELSE "mixed",
        v |-> Zero3, w |-> vertex.tangent.w]

computeTangents(m) ==
  LET s == [m EXCEPT !.stages = Append(@, "ComputeTangents")]
      vs == m.m_vertices
      start == [tangents |-> [k \in 1..Len(vs) |-> TangentStart(vs[k].tangent)],
                bitangents |-> [k \in 1..Len(vs) |->
                                  [form |-> "num", num |-> Zero3, den |-> 1]],
                touched |-> {}, thrown |-> ""]
      acc == AccumulateTangents(m, start, 0)
  IN  IF acc.thrown # ""
      THEN [s EXCEPT
             !.thrown = acc.thrown,
             !.m_vertices =
                [k \in 1..Len(vs) |->
                   IF k \in acc.touched
                   THEN [vs[k] EXCEPT !.tangent =
                           UnfinishedTangent(vs[k], acc.tangents[k])]
                   ELSE vs[k]]]
      ELSE [s EXCEPT
             !.m_vertices =
                [k \in 1..Len(vs) |->
                   [vs[k] EXCEPT !.tangent =
                      FinishTangent(vs[k], acc.tangents[k], acc.bitangents[k],
                                    m.m_posDenSq)]]]

\* ------------------------------------------------- buffers, VAO, destructor
\* createBuffers (lines 127-145); the buffers' contents are not modelled.
createBuffers(m) ==
  LET s == [m EXCEPT !.stages = Append(@, "UploadBuffers")]
      d == glDeleteBuffers(glDeleteBuffers(s, s.m_EBO), s.m_VBO)
      vbo == GenName(d.glBuffers)
      g == [d EXCEPT !.m_VBO = vbo, !.glBuffers = @ \cup {vbo}]
      ebo == GenName(g.glBuffers)
  IN  [g EXCEPT !.m_EBO = ebo, !.glBuffers = @ \cup {ebo}]

\* setupVAO (lines 310-357); attribute bindings are not modelled.
setupVAO(m) ==
  LET d == glDeleteVertexArrays(m, m.m_VAO)
      vao == GenName(d.glVertexArrays)
  IN  [d EXCEPT !.m_VAO = vao, !.glVertexArrays = @ \cup {vao}]

\* ~Model (lines 24-30).
Destructor(m) ==
  glDeleteVertexArrays(
    glDeleteBuffers(
      glDeleteBuffers(
        glDeleteTextures(glDeleteTextures(m, m.m_normalTexture),
                         m.m_diffuseTexture),
        m.m_EBO),
      m.m_VBO),
    m.m_VAO)

\* ------------------------------------------------ loadFromFile (lines 161-284)
\* ParseFailure with the mesh cleared before the parse.
ParseFailureAfterClear(m) == [ClearMesh(m) EXCEPT !.thrown = "ParseFailure"]

\* ParseFromFile returned false: the exception leaves before any member is
\* touched.
ParseFailure(m) == [m EXCEPT !.thrown = "ParseFailure"]

\* The objects that exist as the load starts to rebuild the mesh.
BeginLoad(m) ==
  [m EXCEPT !.previous = LiveObjects(m.glBuffers, m.glTextures, m.glVertexArrays)]

StandardizeStage(m, standardizeFlag) ==
  IF standardizeFlag THEN standardize(m) ELSE m

\* NormalsStage that recomputes the normals of every load.
NormalsStageAlways(m) == computeNormals(m)

NormalsStage(m) == IF ~m.m_hasNormals THEN computeNormals(m) ELSE m

TangentsStage(m) == IF m.m_hasTexCoords THEN computeTangents(m) ELSE m

\* Each stage runs only when no exception is propagating from an earlier
\* one.
loadFromFile(m, file, standardizeFlag) ==
  IF ~file.parseOk THEN ParseFailure(m)
  ELSE
    LET built == BuildVertexIndex(BeginLoad(m), file)
    IN  IF built.thrown # "" THEN built
        ELSE
          LET normals == NormalsStage(
                           StandardizeStage(ResolveMaterial(built, file),
                                            standardizeFlag))
          IN  IF normals.thrown # "" THEN normals
              ELSE
                LET tangents == TangentsStage(normals)
                IN  IF tangents.thrown # "" THEN tangents
                    ELSE createBuffers(tangents)

\* -------------------------------------------------------------- actions
NoFile == ObjFile(FALSE, <<>>, <<>>, <<>>, <<>>, NoMaterials)

Called(op, file, standardizeFlag, r) ==
  [op |-> op, file |-> file, standardize |-> standardizeFlag,
   result |-> IF r.thrown = "" THEN "ok" ELSE r.thrown, stages |-> r.stages]

\* The members and the OpenGL context after a call that returned r.
Becomes(r) ==
  /\ m_vertices' = r.m_vertices
  /\ m_indices' = r.m_indices
  /\ m_hasNormals' = r.m_hasNormals
  /\ m_hasTexCoords' = r.m_hasTexCoords
  /\ m_posDenSq' = r.m_posDenSq
  /\ m_Ka' = r.m_Ka
  /\ m_Kd' = r.m_Kd
  /\ m_Ks' = r.m_Ks
  /\ m_shininess' = r.m_shininess
  /\ m_VAO' = r.m_VAO
  /\ m_VBO' = r.m_VBO
  /\ m_EBO' = r.m_EBO
  /\ m_diffuseTexture' = r.m_diffuseTexture
  /\ m_normalTexture' = r.m_normalTexture
  /\ glBuffers' = r.glBuffers
  /\ glTextures' = r.glTextures
  /\ glVertexArrays' = r.glVertexArrays
  /\ previous' = r.previous

\* A freshly constructed Model in a context that holds no objects.
Init ==
  /\ m_vertices = <<>>
  /\ m_indices = <<>>
  /\ m_hasNormals = FALSE
  /\ m_hasTexCoords = FALSE
  /\ m_posDenSq = 1
  /\ m_Ka = <<0, 0, 0, 0>>
  /\ m_Kd = <<0, 0, 0, 0>>
  /\ m_Ks = <<0, 0, 0, 0>>
  /\ m_shininess = 0
  /\ m_VAO = 0
  /\ m_VBO = 0
  /\ m_EBO = 0
  /\ m_diffuseTexture = 0
  /\ m_normalTexture = 0
  /\ glBuffers = {}
  /\ glTextures = {}
  /\ glVertexArrays = {}
  /\ previous = {}
  /\ destroyed = FALSE
  /\ lastCall = [op |-> "new", file |-> NoFile, standardize |-> FALSE,
                 result |-> "ok", stages |-> <<>>]

LoadFromFile ==
  /\ ~destroyed
  /\ \E file \in Files, standardizeFlag \in BOOLEAN :
       \E r \in {loadFromFile(Self, file, standardizeFlag)} :
         /\ Becomes(r)
         /\ lastCall' = Called("loadFromFile", file, standardizeFlag, r)
  /\ UNCHANGED destroyed

ComputeNormals ==
  /\ ~destroyed
  /\ \E r \in {computeNormals(Self)} :
       /\ Becomes(r)
       /\ lastCall' = Called("computeNormals", NoFile, FALSE, r)
  /\ UNCHANGED destroyed

ComputeTangents ==
  /\ ~destroyed
  /\ \E r \in {computeTangents(Self)} :
       /\ Becomes(r)
       /\ lastCall' = Called("computeTangents", NoFile, FALSE, r)
  /\ UNCHANGED destroyed

SetupVAO ==
  /\ ~destroyed
  /\ \E r \in {setupVAO(Self)} :
       /\ Becomes(r)
       /\ lastCall' = Called("setupVAO", NoFile, FALSE, r)
  /\ UNCHANGED destroyed

Destroy ==
  /\ ~destroyed
  /\ \E r \in {Destructor(Self)} :
       /\ Becomes(r)
       /\ lastCall' = Called("~Model", NoFile, FALSE, r)
  /\ destroyed' = TRUE

Next == LoadFromFile \/ ComputeNormals \/ ComputeTangents \/ SetupVAO \/ Destroy

Spec == Init /\ [][Next]_vars

\* ------------------------------------------------------------ properties
LoadCompleted == lastCall.op = "loadFromFile" /\ lastCall.result = "ok"

\* What corner k of a document contributes, read from the document itself:
\* its position, its normal and its texture coordinate, zero when absent.
Candidate(file, k) ==
  LET index == file.indices[k]
  IN  <<file.vertices[index.vertex_index + 1],
        IF index.normal_index >= 0 THEN file.normals[index.normal_index + 1]
        ELSE Zero3,
        IF index.texcoord_index >= 0 THEN file.texcoords[index.texcoord_index + 1]
        ELSE <<0, 0>>>>

\* The corners whose candidate no earlier corner has.
FirstOccurrences(file) ==
  {k \in 1..Len(file.indices) :
     \A j \in 1..(k - 1) : Candidate(file, j) # Candidate(file, k)}

\* The corner at which corner k's candidate first occurs.
FirstOccurrence(file, k) ==
  CHOOSE j \in FirstOccurrences(file) : Candidate(file, j) = Candidate(file, k)

\* The place of corner k's candidate among the distinct candidates, from 0.
RankOfCorner(file, k) ==
  Cardinality({j \in FirstOccurrences(file) : j < FirstOccurrence(file, k)})

SuppliesNormal(file) == \E k \in 1..Len(file.indices) : file.indices[k].normal_index >= 0

SuppliesTexCoord(file) ==
  \E k \in 1..Len(file.indices) : file.indices[k].texcoord_index >= 0

MeshIsDedupOfCorners ==
  LoadCompleted =>
    LET file == lastCall.file
    IN  /\ Len(m_indices) = Len(file.indices)
        /\ Len(m_vertices) = Cardinality(FirstOccurrences(file))
        /\ \A k \in 1..Len(file.indices) :
             /\ m_indices[k] = RankOfCorner(file, k)
             /\ m_vertices[m_indices[k] + 1].texCoord = Candidate(file, k)[3]
             /\ ~lastCall.standardize =>
                  m_vertices[m_indices[k] + 1].position = Candidate(file, k)[1]
             /\ SuppliesNormal(file) =>
                  m_vertices[m_indices[k] + 1].normal = RawNormal(Candidate(file, k)[2])
        /\ file = CubeFile => Len(m_vertices) = 8 /\ Len(m_indices) = 36

\* A second load of the same document with the same flag, right after the
\* first, leaves the vertex and index sequences as they were.
ReloadIsIdentical ==
  (LoadCompleted /\ lastCall' = lastCall) => UNCHANGED <<m_vertices, m_indices>>

IndicesWellFormed ==
  /\ Len(m_indices) % 3 = 0
  /\ \A k \in 1..Len(m_indices) : m_indices[k] < Len(m_vertices)

RecomputeKeepsIndicesWellFormed ==
  (IndicesWellFormed /\ lastCall'.op \in {"computeNormals", "computeTangents"})
    => IndicesWellFormed'

\* C2: after every completed loadFromFile every index is below the vertex
\* count and the index count is a multiple of 3, and a computeNormals or
\* computeTangents call on such a mesh leaves it so.
C2_IndicesInRange ==
  [](LoadCompleted => IndicesWellFormed) /\ [][RecomputeKeepsIndicesWellFormed]_vars

\* computeNormals has run again on the square (two faces, four vertices).
C2_Witness ==
  /\ lastCall.op = "computeNormals"
  /\ lastCall.result = "ok"
  /\ Len(m_indices) = 6
  /\ Len(m_vertices) = 4

\* ---- C3
ParseFailureChangesNothing ==
  (lastCall'.op = "loadFromFile" /\ ~lastCall'.file.parseOk) =>
    /\ lastCall'.result = "ParseFailure"
    /\ lastCall'.stages = <<>>
    /\ UNCHANGED <<meshVars, materialVars, handleVars, glVars>>

\* C3: a load whose parse fails raises the parse error, runs none of the
\* stages, and leaves vertices, indices, the two flags, the material, the
\* handles and the OpenGL objects as they were.
C3_ParseFailureIsAtomic == [][ParseFailureChangesNothing]_vars

\* A rejected document, loaded into a Model that holds a mesh, buffers and
\* a diffuse texture.
C3_Witness ==
  /\ lastCall.result = "ParseFailure"
  /\ m_vertices # <<>>
  /\ m_hasTexCoords
  /\ m_VBO # 0
  /\ m_diffuseTexture # 0

\* ---- C8
Optional(condition, stage) == IF condition THEN <<stage>> ELSE <<>>

ExpectedStages(file, standardizeFlag) ==
  <<"BuildVertexIndex", "ResolveMaterial">>
    \o Optional(standardizeFlag, "Standardize")
    \o Optional(~SuppliesNormal(file), "ComputeNormals")
    \o Optional(SuppliesTexCoord(file), "ComputeTangents")
    \o <<"UploadBuffers">>

\* C8: a completed load ran BuildVertexIndex, ResolveMaterial, Standardize
\* iff the flag was passed, ComputeNormals iff no corner supplied a normal,
\* ComputeTangents iff some corner supplied a texture coordinate, and
\* UploadBuffers, each once and in this order.
C8_StageOrder ==
  LoadCompleted => lastCall.stages = ExpectedStages(lastCall.file, lastCall.standardize)

\* A load that ran all six stages.
C8_Witness ==
  /\ LoadCompleted
  /\ lastCall.stages = <<"BuildVertexIndex", "ResolveMaterial", "Standardize",
                         "ComputeNormals", "ComputeTangents", "UploadBuffers">>

\* ---- C9
NormalsComputed ==
  /\ lastCall.result = "ok"
  /\ \/ lastCall.op = "computeNormals"
     \/ /\ lastCall.op = "loadFromFile"
        /\ \E i \in 1..Len(lastCall.stages) : lastCall.stages[i] = "ComputeNormals"

\* cross(p1 - p0, p2 - p1) of the face that corner k belongs to.
CrossOfCornerFace(k) ==
  LET first == k - ((k - 1) % 3)
      p0 == m_vertices[m_indices[first] + 1].position
      p1 == m_vertices[m_indices[first + 1] + 1].position
      p2 == m_vertices[m_indices[first + 2] + 1].position
  IN  Cross3(Sub3(p1, p0), Sub3(p2, p1))

\* The sum of CrossOfCornerFace over the corners 1..k that name vertex v.
RECURSIVE SumOverCorners(_, _)
SumOverCorners(v, k) ==
  IF k = 0 THEN Zero3
  ELSE Add3(SumOverCorners(v, k - 1),
            IF m_indices[k] = v THEN CrossOfCornerFace(k) ELSE Zero3)

NormalsAreNormalizedSums ==
  NormalsComputed =>
    \A v \in 1..Len(m_vertices) :
      m_vertices[v].normal =
        IF m_posDenSq = 0 THEN [form |-> "nan", v |-> Zero3]
        ELSE Normalize3(SumOverCorners(v - 1, Len(m_indices)))

ComputeNormalsTouchesNormalsOnly ==
  (lastCall'.op = "computeNormals" /\ lastCall'.result = "ok") =>
    /\ UNCHANGED <<m_indices, m_posDenSq>>
    /\ Len(m_vertices') = Len(m_vertices)
    /\ \A v \in 1..Len(m_vertices) :
         /\ m_vertices'[v].position = m_vertices[v].position
         /\ m_vertices'[v].texCoord = m_vertices[v].texCoord
         /\ m_vertices'[v].tangent = m_vertices[v].tangent
    /\ NormalsComputed => UNCHANGED m_vertices

\* C9: computeNormals replaces every normal by the normalized sum, over the
\* corners that name the vertex, of cross(p1 - p0, p2 - p1) of the corner's
\* face, whatever the normal was; it changes no position, texture
\* coordinate, tangent or index; run on normals it has just computed it
\* changes nothing.
C9_ComputeNormals ==
  [](NormalsAreNormalizedSums) /\ [][ComputeNormalsTouchesNormalsOnly]_vars

\* computeNormals called on the square that was loaded with source normals
\* (0, 1, 0) and (1, 0, 0): every normal is now the plane's +z.
C9_Witness ==
  /\ lastCall.op = "computeNormals"
  /\ lastCall.result = "ok"
  /\ m_hasTexCoords
  /\ Len(m_vertices) = 4
  /\ Len(m_indices) = 6
  /\ \A v \in 1..4 : m_vertices[v].normal = [form |-> "unit", v |-> <<0, 0, 1>>]

\* ---- C4
RanStage(stage) == \E i \in 1..Len(lastCall.stages) : lastCall.stages[i] = stage

CornerInRange(file, k) ==
  LET index == file.indices[k]
  IN  /\ InRange(file.vertices, index.vertex_index)
      /\ index.normal_index >= 0 => InRange(file.normals, index.normal_index)
      /\ index.texcoord_index >= 0 => InRange(file.texcoords, index.texcoord_index)

\* The mesh is the deduplication of the corners before the first bad one.
HoldsPrefixMesh(file) ==
  \E n \in 1..(Len(file.indices) - 1) :
    /\ \A k \in 1..n : CornerInRange(file, k)
    /\ ~CornerInRange(file, n + 1)
    /\ LET prefix == [file EXCEPT !.indices = SubSeq(@, 1, n)]
       IN  /\ Len(m_indices) = n
           /\ Len(m_vertices) = Cardinality(FirstOccurrences(prefix))
           /\ \A k \in 1..n : m_indices[k] = RankOfCorner(prefix, k)

\* C4: a load that meets a position, normal or texture-coordinate index
\* outside its array aborts, never reaches UploadBuffers, and does not leave
\* the Model holding the mesh of the corners before the bad one.
C4_NoPartialLoad ==
  (lastCall.op = "loadFromFile" /\ \E k \in 1..Len(lastCall.file.indices) :
                                      ~CornerInRange(lastCall.file, k)) =>
    /\ lastCall.result = "out_of_range"
    /\ ~RanStage("UploadBuffers")
    /\ ~HoldsPrefixMesh(lastCall.file)

\* ---- C5
ReferencesMissingDiffuse(file) ==
  /\ file.materials # <<>>
  /\ file.materials[1].diffuse_texname # ""
  /\ file.materials[1].diffuse_texname \notin ExistingFiles

\* C5: a load whose first material names a diffuse texture file that does
\* not exist completes, and the Model then has no diffuse texture bound,
\* whatever earlier loads bound.
C5_MissingDiffuseLeavesNoneBound ==
  (lastCall.op = "loadFromFile" /\ ReferencesMissingDiffuse(lastCall.file)) =>
    /\ lastCall.result = "ok"
    /\ m_diffuseTexture = 0

\* ---- C6
HandleObjects ==
  LiveObjects({m_VBO, m_EBO}, {m_diffuseTexture, m_normalTexture}, {m_VAO})

\* C6: every object the Model created is named by one of its handles until
\* it is deleted; a completed load leaves no object that existed before
\* it; a destroyed Model leaves none; at most five objects exist.
C6_ResourcesReleased ==
  LET live == LiveObjects(glBuffers, glTextures, glVertexArrays)
  IN  /\ live \subseteq HandleObjects
      /\ Cardinality(live) <= 5
      /\ LoadCompleted => previous = {}
      /\ destroyed => live = {}

\* ---- C7
\* C7: after a load that standardized a mesh whose positions are not all
\* the same, the bounding box is centered at the origin and its longest
\* axis spans [-1, 1]: with positions numerator / sqrt(m_posDenSq), the
\* longest extent E satisfies E * E = 4 * m_posDenSq.
C7_LongestAxisSpansUnit ==
  (LoadCompleted /\ lastCall.standardize /\ m_vertices # <<>> /\ m_posDenSq # 0) =>
    LET max == BoundsMax(m_vertices)
        min == BoundsMin(m_vertices)
        extent == Max2(Max2(max[1] - min[1], max[2] - min[2]), max[3] - min[3])
    IN  /\ \A axis \in 1..3 : max[axis] + min[axis] = 0
        /\ extent * extent = 4 * m_posDenSq

\* ---- C10
IsUnitNormal(n) ==
  \/ n.form = "unit"
  \/ n.form = "raw" /\ Dot3(n.v, n.v) = 1

\* C10: when a load ran ComputeTangents, every vertex had a unit normal
\* (computeTangents does not write normals, so they are the ones in the
\* state the load returns).
C10_UnitNormalsBeforeTangents ==
  (LoadCompleted /\ RanStage("ComputeTangents")) =>
    \A v \in 1..Len(m_vertices) : IsUnitNormal(m_vertices[v].normal)

====
